---- MODULE Spec2Model ----
(***************************************************************************)
(* anndata-cache: a two-tier cache (plasma hot store, on-disk cold tier)   *)
(* in front of .h5ad source files.  The model follows the Python sources   *)
(* types.py, utils.py, crud.py, meta.py, _anndata.py and _other_types.py.  *)
(*                                                                         *)
(* Strings are sequences of tokens.  A token is the separator "/", the     *)
(* dot ".", the extension ".h5ad", or a word that holds no "/" and neither *)
(* starts nor ends with a dot, so that str.strip, str.split and            *)
(* str.replace act on tokens exactly as they act on the characters.        *)
(***************************************************************************)
EXTENDS Integers, Sequences, FiniteSets, TLC

VARIABLES fname, cwd, killOnFail, alive, hot, files, last, procs

vars == <<fname, cwd, killOnFail, alive, hot, files, last, procs>>

----------------------------------------------------------------------------
(* Bounds of the model *)

\* payload values of the direct put calls are numbered 1..MaxData
MaxData == 1

\* the plasma call of one public call that loses the connection is numbered
\* 0 (none) .. MaxFaultAt
MaxFaultAt == 8

\* the allocation of one public call that finds the store full is numbered
\* 0 (none) .. MaxFullAt
MaxFullAt == 2

\* the names keys are derived from have up to MaxNameLen tokens before an
\* optional ".h5ad"
MaxNameLen == 7

----------------------------------------------------------------------------
(* Strings and paths *)

Slash == "/"
Dot == "."
H5ad == ".h5ad"

\* str.split("/")
RECURSIVE Split(_)
Split(s) ==
    IF \A i \in 1..Len(s) : s[i] # Slash
    THEN <<s>>
    ELSE LET i == CHOOSE i \in 1..Len(s) :
                      s[i] = Slash /\ \A j \in 1..(i - 1) : s[j] # Slash
         IN  <<SubSeq(s, 1, i - 1)>> \o Split(SubSeq(s, i + 1, Len(s)))

\* str.lstrip(chars), str.rstrip(chars), str.strip(chars)
RECURSIVE LStrip(_, _)
LStrip(s, chars) ==
    IF s # <<>> /\ s[1] \in chars THEN LStrip(Tail(s), chars) ELSE s

RECURSIVE RStrip(_, _)
RStrip(s, chars) ==
    IF s # <<>> /\ s[Len(s)] \in chars
    THEN RStrip(SubSeq(s, 1, Len(s) - 1), chars)
    ELSE s

Strip(s, chars) == RStrip(LStrip(s, chars), chars)

\* str.replace(".h5ad", "")
ReplaceH5ad(s) == SelectSeq(s, LAMBDA t : t # H5ad)

\* "/".join(parts)
RECURSIVE Join(_)
Join(parts) ==
    IF parts = <<>> THEN <<>>
    ELSE IF Len(parts) = 1 THEN parts[1]
    ELSE parts[1] \o <<Slash>> \o Join(Tail(parts))

\* pathlib.PurePosixPath(s): empty and "." segments are dropped, a leading
\* separator is kept, a trailing one is not
PathOf(s) ==
    LET parts == SelectSeq(Split(s), LAMBDA p : p # <<>> /\ p # <<Dot>>)
    IN  IF s # <<>> /\ s[1] = Slash THEN <<Slash>> \o Join(parts) ELSE Join(parts)

IsAbsolute(s) == s # <<>> /\ s[1] = Slash

\* Path(base) / s : an absolute right operand replaces the left one
PathJoin(base, s) ==
    IF IsAbsolute(s) THEN PathOf(s) ELSE PathOf(base \o <<Slash>> \o s)

\* Path(s).absolute() in working directory wd
Absolute(wd, s) == PathJoin(wd, s)

\* Path.parent of a normalised path
Parent(p) ==
    LET segs == Split(p)
    IN  IF Len(segs) <= 1 THEN <<>> ELSE Join(SubSeq(segs, 1, Len(segs) - 1))

----------------------------------------------------------------------------
(* Configuration: __init__.py *)

\* os.environ["ANNDATA_DATA_FOLDER"], ["ANNDATA_CACHE_FOLDER"], ["ANNDATA_CACHE_NAME_MAP_ID"]
DataFolder == <<Slash, "data">>
CacheFolder == <<Slash, "cache">>
NameMapId == <<Slash, "id_name_map">>

----------------------------------------------------------------------------
(* types.py: Key *)

\* at most this many path components make a name a cache name
MaxCachedSegments == 3

\* plasma.ObjectID(shake_128(name).digest(20)): the digest is not computed; an
\* object id is the digest tag applied to the hashed string
ObjectIdFromString(name) == <<"shake_128", name>>

\* ObjectID.binary().hex()
HexOf(id) == <<"hex", id[2]>>

\* a variant of SegmentCount that does not trim the separators at the ends
SegmentCountUntrimmed(filename) == Len(Split(filename))

\* Key.__init__, line 35: len(filename.strip("/").split("/"))
SegmentCount(filename) == Len(Split(Strip(filename, {Slash})))

\* Key.__init__ in a process whose working directory is wd
Key(filename, wd) ==
    IF SegmentCount(filename) <= MaxCachedSegments
    THEN LET name == Strip(ReplaceH5ad(filename), {Slash, Dot})
         IN  [ name     |-> name,
               path     |-> PathJoin(DataFolder, name \o <<H5ad>>),
               location |-> "cached",
               id       |-> ObjectIdFromString(name) ]
    ELSE LET name == Absolute(wd, filename)
         IN  [ name     |-> name,
               path     |-> PathOf(filename),
               location |-> "hdd",
               id       |-> ObjectIdFromString(name) ]

\* Key.with_suffix
WithSuffix(key, suffix, wd) == Key(key.name \o suffix, wd)

----------------------------------------------------------------------------
(* Values and the typed codec of crud.put / crud.get *)

DataFrame(d) == [type |-> "DataFrame", data |-> d]
Ndarray(d) == [type |-> "ndarray", data |-> d]
PyObject(d) == [type |-> "object", data |-> d]

\* what put writes into the slot, chosen by isinstance(obj, ...)
Encode(obj) ==
    IF obj.type = "DataFrame" THEN [fmt |-> "record_batch_stream", payload |-> obj.data]
    ELSE IF obj.type = "ndarray" THEN [fmt |-> "tensor", payload |-> obj.data]
    ELSE [fmt |-> "plasma_object", payload |-> obj.data]

\* the format each reader of get understands
FormatOf(dtype) ==
    IF dtype = "pandas" THEN "record_batch_stream"
    ELSE IF dtype = "numpy" THEN "tensor"
    ELSE "plasma_object"

Decodable(buf, dtype) == buf.fmt = FormatOf(dtype)

Decode(buf, dtype) ==
    IF dtype = "pandas" THEN DataFrame(buf.payload)
    ELSE IF dtype = "numpy" THEN Ndarray(buf.payload)
    ELSE PyObject(buf.payload)

----------------------------------------------------------------------------
(* One public call in progress.  hot and files are the shared store and the *)
(* file system as the call has changed them so far; n counts the calls made *)
(* to the plasma client and allocs the allocations among them; exc is the   *)
(* exception in flight ("none": running, "SIGKILL": the process was killed, *)
(* "hang": a blocking get never returns); ret is the value returned (None   *)
(* is PyNone); env holds local variables; faulted tells that the fault      *)
(* planned for the call happened; srcTried and srcRead are the source files *)
(* the call opened and those it parsed; coldRead and coldWrote the cold     *)
(* files it read and wrote.                                                 *)

PyNone == [type |-> "NoneType", data |-> <<>>]
PyBool(b) == [type |-> "bool", data |-> b]

Begin(h, fs) ==
    [ hot |-> h, files |-> fs, n |-> 0, exc |-> "none", ret |-> PyNone, env |-> <<>>,
      allocs |-> 0, faulted |-> FALSE, srcTried |-> {}, srcRead |-> {}, coldRead |-> {},
      coldWrote |-> {} ]

Running(m) == m.exc = "none"

Raise(m, e) == [m EXCEPT !.exc = e]

\* name = <the value just returned>
Keep(m, name) == IF ~Running(m) THEN m ELSE [m EXCEPT !.env = (name :> m.ret) @@ @]

\* a fault plan names the plasma call of this public call that fails and how
NoFault == [at |-> 0, kind |-> "OSError"]

\* the next plasma call fails: it is the call that loses the connection, or
\* the allocation that finds the store full
Faulty(m, f, allocating) ==
    IF f.kind = "PlasmaStoreFull"
    THEN allocating /\ m.allocs + 1 = f.at
    ELSE m.n + 1 = f.at

\* the plasma call raises
Fail(m, f) == [m EXCEPT !.n = @ + 1, !.exc = f.kind, !.faulted = TRUE]

\* the plasma call went through
Called(m, allocating) ==
    [m EXCEPT !.n = @ + 1, !.allocs = IF allocating THEN @ + 1 ELSE @]

----------------------------------------------------------------------------
(* The plasma client: an object is visible once it is sealed *)

Sealed(h, id) == id \in DOMAIN h /\ h[id].sealed

Without(h, id) == [i \in DOMAIN h \ {id} |-> h[i]]

With(h, id, buf, sealed) ==
    [i \in DOMAIN h \cup {id} |-> IF i = id THEN [buf |-> buf, sealed |-> sealed] ELSE h[i]]

\* _plasma_client.contains(id): the result is left in ret
ClientContains(m, id, f) ==
    IF ~Running(m) THEN m
    ELSE IF Faulty(m, f, FALSE) THEN Fail(m, f)
    ELSE [Called(m, FALSE) EXCEPT !.ret = PyBool(Sealed(m.hot, id))]

\* _plasma_client.get(id) and get_buffers([id]): block until the object is sealed
ClientGetBuffer(m, id, f) ==
    IF ~Running(m) THEN m
    ELSE IF Faulty(m, f, FALSE) THEN Fail(m, f)
    ELSE IF ~Sealed(m.hot, id) THEN Raise(Called(m, FALSE), "hang")
    ELSE [Called(m, FALSE) EXCEPT !.ret = m.hot[id].buf]

\* _plasma_client.delete([id]): removes a sealed object, ignores anything else
ClientDelete(m, id, f) ==
    IF ~Running(m) THEN m
    ELSE IF Faulty(m, f, FALSE) THEN Fail(m, f)
    ELSE IF Sealed(m.hot, id) THEN [Called(m, FALSE) EXCEPT !.hot = Without(@, id)]
    ELSE Called(m, FALSE)

\* _plasma_client.create(id, size) followed by the local write into the buffer
ClientCreate(m, id, buf, f) ==
    IF ~Running(m) THEN m
    ELSE IF Faulty(m, f, TRUE) THEN Fail(m, f)
    ELSE IF id \in DOMAIN m.hot THEN Raise(Called(m, FALSE), "PlasmaObjectExists")
    ELSE [Called(m, TRUE) EXCEPT !.hot = With(@, id, buf, FALSE)]

\* _plasma_client.seal(id)
ClientSeal(m, id, f) ==
    IF ~Running(m) THEN m
    ELSE IF Faulty(m, f, FALSE) THEN Fail(m, f)
    ELSE [Called(m, FALSE) EXCEPT !.hot = With(@, id, @[id].buf, TRUE)]

\* _plasma_client.put(obj, id): serialise, create and seal in one client call
ClientPut(m, id, buf, f) ==
    IF ~Running(m) THEN m
    ELSE IF Faulty(m, f, TRUE) THEN Fail(m, f)
    ELSE IF id \in DOMAIN m.hot THEN Raise(Called(m, FALSE), "PlasmaObjectExists")
    ELSE [Called(m, TRUE) EXCEPT !.hot = With(@, id, buf, TRUE)]

\* _plasma_client.list() and _plasma_client.store_capacity()
ClientQuery(m, f) ==
    IF ~Running(m) THEN m
    ELSE IF Faulty(m, f, FALSE) THEN Fail(m, f)
    ELSE Called(m, FALSE)

----------------------------------------------------------------------------
(* utils.py *)

\* kill_app(), called from an except clause: SIGKILL unless
\* ANNDATA_CACHE_KILL_ON_FAIL is "false", and then the handler falls through
KillApp(m, kill) == IF kill THEN Raise(m, "SIGKILL") ELSE Raise(m, "none")

----------------------------------------------------------------------------
(* crud.py *)

\* _id_name_map_key = Key(os.environ["ANNDATA_CACHE_NAME_MAP_ID"])
IdNameMapKey(wd) == Key(NameMapId, wd)

IsTrue(v) == v.type = "bool" /\ v.data

\* contains(*keys): a failed check appends nothing to results
RECURSIVE ContainsLoop(_, _, _, _, _)
RECURSIVE ContainsStep(_, _, _, _, _)
ContainsStep(c, rest, results, f, kill) ==
    IF c.exc = "OSError" THEN ContainsLoop(KillApp(c, kill), rest, results, f, kill)
    ELSE IF ~Running(c) THEN c
    ELSE ContainsLoop(c, rest, Append(results, c.ret.data), f, kill)

ContainsLoop(m, keys, results, f, kill) ==
    IF ~Running(m) THEN m
    ELSE IF keys = <<>>
    THEN [m EXCEPT !.ret = PyBool(\A i \in 1..Len(results) : results[i])]
    ELSE ContainsStep(ClientContains(m, Head(keys).id, f), Tail(keys), results, f, kill)

Contains(m, keys, f, kill) == ContainsLoop(m, keys, <<>>, f, kill)

\* put, lines 62-65: the registry found by contains is read and deleted
RegistryTake(c, reg, f) ==
    IF ~Running(c) THEN c
    ELSE IF c.ret.data
    THEN ClientDelete(Keep(ClientGetBuffer(c, reg, f), "id_name_map"), reg, f)
    ELSE [c EXCEPT !.env = ("id_name_map" :> [payload |-> <<>>]) @@ @]

\* put, lines 66-67: the name is merged in and the registry is written
RegistryWrite(c, reg, key, f) ==
    IF ~Running(c) THEN c
    ELSE ClientPut(c, reg,
                   Encode(PyObject((HexOf(key.id) :> key.name) @@ c.env["id_name_map"].payload)),
                   f)

\* put, lines 62-67: the name registry is read, deleted and written again,
\* outside the try block
PutRegistry(m, reg, key, f) ==
    RegistryWrite(RegistryTake(ClientContains(m, reg, f), reg, f), reg, key, f)

\* put, lines 78-104: the slot is allocated, written and sealed
PutStore(c, obj, key, f) ==
    IF obj.type \in {"DataFrame", "ndarray"}
    THEN ClientSeal(ClientCreate(c, key.id, Encode(obj), f), key.id, f)
    ELSE ClientPut(c, key.id, Encode(obj), f)

\* a variant of PutReplace that ignores overwrite: an object found is always
\* deleted and written again
PutReplaceAlways(c, obj, key, overwrite, f) ==
    IF ~Running(c) THEN c
    ELSE IF c.ret.data THEN PutStore(ClientDelete(c, key.id, f), obj, key, f)
    ELSE PutStore(c, obj, key, f)

\* put, lines 70-75: an object found is kept, or deleted to be overwritten
PutReplace(c, obj, key, overwrite, f) ==
    IF ~Running(c) THEN c
    ELSE IF c.ret.data /\ ~overwrite THEN c
    ELSE IF c.ret.data THEN PutStore(ClientDelete(c, key.id, f), obj, key, f)
    ELSE PutStore(c, obj, key, f)

\* put, lines 69-104: the body of the try block
PutPayload(m, obj, key, overwrite, f) ==
    PutReplace(ClientContains(m, key.id, f), obj, key, overwrite, f)

\* a variant of PutExcept that escalates a full store like a lost connection
PutExceptKillsOnFull(t, kill) ==
    IF t.exc \in {"OSError", "PlasmaStoreFull"} THEN [KillApp(t, kill) EXCEPT !.ret = PyNone]
    ELSE [t EXCEPT !.ret = PyNone]

\* put, lines 105-113: the except clauses
PutExcept(t, kill) ==
    IF t.exc = "OSError" THEN [KillApp(t, kill) EXCEPT !.ret = PyNone]
    ELSE [t EXCEPT !.ret = PyNone]

PutTry(r, obj, key, overwrite, f, kill) ==
    IF ~Running(r) THEN r ELSE PutExcept(PutPayload(r, obj, key, overwrite, f), kill)

\* put with its parameters bound: obj, key, overwrite
PutBound(m, obj, key, overwrite, f, kill, wd) ==
    PutTry(PutRegistry(m, IdNameMapKey(wd).id, key, f), obj, key, overwrite, f, kill)

\* def put(obj, Any, key, overwrite=True): the call binds its positional
\* arguments pos and the keyword overwrite (kw: no or one boolean) to the four
\* parameters; the second parameter is never read
PutArgsBind(pos, kw) ==
    /\ Len(pos) \in {3, 4}
    /\ Len(pos) = 4 => kw = {}

Put(m, pos, kw, f, kill, wd) ==
    IF ~Running(m) THEN m
    ELSE IF ~PutArgsBind(pos, kw) THEN Raise(m, "TypeError")
    ELSE PutBound(m, pos[1], pos[3],
                  IF Len(pos) = 4 THEN pos[4]
                  ELSE IF kw # {} THEN (CHOOSE b \in kw : TRUE)
                  ELSE TRUE,
                  f, kill, wd)

\* get, lines 157-163: after a handled failure obj was never assigned
GetUnbound(k) == IF Running(k) THEN Raise(k, "UnboundLocalError") ELSE k

\* get, lines 142-156: the reader named by dtype decodes the buffer
GetDecode(c, dtype, kill) ==
    IF c.exc = "OSError" THEN GetUnbound(KillApp(c, kill))
    ELSE IF ~Running(c) THEN c
    ELSE IF ~Decodable(c.ret, dtype) THEN Raise(c, "DecodeError")
    ELSE [c EXCEPT !.ret = Decode(c.ret, dtype)]

\* get(key, dtype)
Get(m, key, dtype, f, kill) ==
    IF ~Running(m) THEN m ELSE GetDecode(ClientGetBuffer(m, key.id, f), dtype, kill)

\* delete(*keys)
RECURSIVE Delete(_, _, _, _)
RECURSIVE DeleteStep(_, _, _, _, _)
DeleteStep(c, key, rest, f, kill) ==
    IF c.exc = "OSError" THEN Delete(KillApp(c, kill), rest, f, kill)
    ELSE IF ~Running(c) THEN c
    ELSE IF c.ret.type = "bool" /\ c.ret.data
    THEN DeleteStep([ClientDelete(c, key.id, f) EXCEPT !.ret = PyNone], key, rest, f, kill)
    ELSE Delete(c, rest, f, kill)

Delete(m, keys, f, kill) ==
    IF ~Running(m) THEN m
    ELSE IF keys = <<>> THEN [m EXCEPT !.ret = PyNone]
    ELSE DeleteStep(ClientContains(m, Head(keys).id, f), Head(keys), Tail(keys), f, kill)

----------------------------------------------------------------------------
(* meta.py *)

\* current_usage, lines 30-40: after a handled failure objects or capacity
\* is unbound
UsageResult(c, kill) ==
    IF c.exc = "OSError" THEN GetUnbound(KillApp(c, kill))
    ELSE IF ~Running(c) THEN c
    ELSE [c EXCEPT !.ret = PyObject(<<"number_of_objects", Cardinality(DOMAIN c.hot)>>)]

\* current_usage()
CurrentUsage(m, f, kill) == UsageResult(ClientQuery(ClientQuery(m, f), f), kill)

\* list_objects, lines 56-58: the registry, if there is one, is read
ListRegistry(c, reg, regname, f) ==
    IF ~Running(c) THEN c
    ELSE IF c.ret.data
    THEN Keep(ClientGetBuffer(c, reg, f), "id_name_map")
    ELSE [c EXCEPT !.env = ("id_name_map" :> [payload |-> <<>>]) @@ @]

\* list_objects, line 61: every object of the store with its name, if known
ListNames(c, reg, regname, had) ==
    IF ~Running(c) THEN c
    ELSE [c EXCEPT !.ret = PyObject(
             [id \in DOMAIN c.hot |->
                 IF had /\ id = reg THEN regname \o <<" (internal)">>
                 ELSE IF HexOf(id) \in DOMAIN c.env["id_name_map"].payload
                 THEN c.env["id_name_map"].payload[HexOf(id)]
                 ELSE <<>>])]

\* list_objects(): no call is guarded
ListObjects(m, f, wd) ==
    ListNames(ClientQuery(ListRegistry(ClientContains(m, IdNameMapKey(wd).id, f),
                                       IdNameMapKey(wd).id, IdNameMapKey(wd).name, f), f),
              IdNameMapKey(wd).id, IdNameMapKey(wd).name,
              Sealed(m.hot, IdNameMapKey(wd).id) /\ f.at # 1)

----------------------------------------------------------------------------
(* _anndata.py *)

\* the members of a dataset record, in the order the code handles them
MemberOrder == <<"obs", "var", "X", "metadata", "indices">>
Members == {MemberOrder[i] : i \in 1..Len(MemberOrder)}

\* cold_files: the file of each member in the dataset's cache directory
ColdFileName(member) ==
    IF member = "obs" THEN "obs.h5"
    ELSE IF member = "var" THEN "var.h5"
    ELSE IF member = "X" THEN "X.h5"
    ELSE IF member = "metadata" THEN "metadata.yaml"
    ELSE "indices.yaml"

IsFrame(member) == member \in {"obs", "var", "X"}

\* cache_dir / key.name / "<file>": the path __cool_anndata writes and
\* cache_anndata tests
ColdFile(key, member) ==
    PathJoin(PathJoin(CacheFolder, key.name), <<ColdFileName(member)>>)

\* cache_dir / key.with_suffix("/<file>").name: the path __thaw_anndata and
\* the metadata and indices accessors read
SuffixFile(key, member, wd) ==
    PathJoin(CacheFolder, WithSuffix(key, <<Slash, ColdFileName(member)>>, wd).name)

\* read_anndata, lines 21-68: the whole record is built from the file at p
ReadFile(m, p) ==
    IF ~Running(m) THEN m
    ELSE IF p \notin DOMAIN m.files
    THEN Raise([m EXCEPT !.srcTried = @ \cup {p}], "FileNotFoundError")
    ELSE [m EXCEPT !.srcTried = @ \cup {p}, !.srcRead = @ \cup {p},
                   !.ret = [mem \in Members |->
                               IF IsFrame(mem) THEN DataFrame(<<mem, m.files[p].data>>)
                               ELSE PyObject(<<mem, m.files[p].data>>)]]

\* read_anndata(filepath)
ReadAnndata(m, filepath) == ReadFile(m, PathOf(filepath))

\* to_hdf / yaml.dump of a member, and read_hdf / yaml.load of a file
ColdDump(member, value) ==
    [fmt |-> IF IsFrame(member) THEN "hdf" ELSE "yaml", data |-> value.data]

ColdLoad(member, content) ==
    IF IsFrame(member) THEN DataFrame(content.data) ELSE PyObject(content.data)

\* a variant of CoolMember with the test of line 76 inverted: a member file
\* is written only where one exists
CoolMemberIfExists(m, mem, p, ad) ==
    IF p \notin DOMAIN m.files THEN m
    ELSE [m EXCEPT !.files = (p :> ColdDump(mem, ad[mem])) @@ @,
                   !.coldWrote = @ \cup {p}]

\* a variant of CoolMember without the test of line 76: the member file is
\* always written
CoolMemberAlways(m, mem, p, ad) ==
    [m EXCEPT !.files = (p :> ColdDump(mem, ad[mem])) @@ @,
              !.coldWrote = @ \cup {p}]

\* __cool_anndata, lines 76-90: a member file is written if it does not exist
CoolMember(m, mem, p, ad) ==
    IF p \in DOMAIN m.files THEN m
    ELSE [m EXCEPT !.files = (p :> ColdDump(mem, ad[mem])) @@ @,
                   !.coldWrote = @ \cup {p}]

RECURSIVE CoolFrom(_, _, _, _)
CoolFrom(m, key, ad, i) ==
    IF i > Len(MemberOrder) THEN m
    ELSE CoolFrom(CoolMember(m, MemberOrder[i], ColdFile(key, MemberOrder[i]), ad),
                  key, ad, i + 1)

\* __cool_anndata(key, ad)
CoolAnndata(m, key, ad) == IF ~Running(m) THEN m ELSE CoolFrom(m, key, ad, 1)

\* __thaw_anndata, lines 98-118: a requested member file is read; the record
\* read so far is kept in ret
ThawMember(m, mem, p, members) ==
    IF mem \notin members THEN m
    ELSE IF p \notin DOMAIN m.files THEN Raise(m, "FileNotFoundError")
    ELSE [m EXCEPT !.coldRead = @ \cup {p},
                   !.ret = (mem :> ColdLoad(mem, m.files[p])) @@ @]

RECURSIVE ThawFrom(_, _, _, _, _)
ThawFrom(m, key, members, i, wd) ==
    IF ~Running(m) \/ i > Len(MemberOrder) THEN m
    ELSE ThawFrom(ThawMember(m, MemberOrder[i], SuffixFile(key, MemberOrder[i], wd), members),
                  key, members, i + 1, wd)

\* __thaw_anndata(key, members)
ThawAnndata(m, key, members, wd) ==
    IF ~Running(m) THEN m ELSE ThawFrom([m EXCEPT !.ret = <<>>], key, members, 1, wd)

\* the hot-store entries of one member: (value, key suffix) in the order put
HeatEntries(member, value) ==
    IF member = "X"
    THEN << <<Ndarray(value.data), <<Slash, "X.h5">> >>,
            <<PyObject(<<"columns", value.data>>), <<Slash, "var_names">> >>,
            <<PyObject(<<"index", value.data>>), <<Slash, "obs_names">> >> >>
    ELSE << <<value, <<Slash, ColdFileName(member)>> >> >>

\* the call put(value, key, overwrite=False) of __heat_anndata
HeatPut(m, value, key, f, kill, wd) == Put(m, <<value, key>>, {FALSE}, f, kill, wd)

RECURSIVE HeatEntriesFrom(_, _, _, _, _, _)
HeatEntriesFrom(m, key, entries, f, kill, wd) ==
    IF entries = <<>> THEN m
    ELSE HeatEntriesFrom(
             HeatPut(m, Head(entries)[1], WithSuffix(key, Head(entries)[2], wd), f, kill, wd),
             key, Tail(entries), f, kill, wd)

\* __heat_anndata(key, ad)
RECURSIVE HeatFrom(_, _, _, _, _, _, _)
HeatFrom(m, key, ad, i, f, kill, wd) ==
    IF ~Running(m) \/ i > Len(MemberOrder) THEN m
    ELSE IF MemberOrder[i] \notin DOMAIN ad THEN HeatFrom(m, key, ad, i + 1, f, kill, wd)
    ELSE HeatFrom(HeatEntriesFrom(m, key, HeatEntries(MemberOrder[i], ad[MemberOrder[i]]),
                                  f, kill, wd),
                  key, ad, i + 1, f, kill, wd)

HeatAnndata(m, key, ad, f, kill, wd) == HeatFrom(m, key, ad, 1, f, kill, wd)

\* cache_anndata, line 160: a full reload is needed
NeedsSourceRead(m, key) ==
    key.location = "hdd" \/ ~(\A mem \in Members : ColdFile(key, mem) \in DOMAIN m.files)

\* cache_anndata, lines 162-165: the file the full reload parses
SourceFile(key) ==
    IF key.location = "hdd" THEN key.name ELSE PathJoin(CacheFolder, key.name \o <<H5ad>>)

\* a variant of CacheCool without the test of line 168: every record is cooled
CacheCoolAlways(r, key) ==
    IF Running(r) THEN CoolAnndata(r, key, r.ret) ELSE r

\* cache_anndata, lines 168-169: the record of a cache name is cooled
CacheCool(r, key) ==
    IF Running(r) /\ key.location = "cached" THEN CoolAnndata(r, key, r.ret) ELSE r

\* a variant of CacheLoad that tests the cold files of the requested members
\* only
CacheLoadRequested(m, key, heatup, wd) ==
    IF key.location = "hdd" \/ \E mem \in heatup : ColdFile(key, mem) \notin DOMAIN m.files
    THEN CacheCool(ReadAnndata(m, SourceFile(key)), key)
    ELSE ThawAnndata(m, key, heatup, wd)

\* cache_anndata, lines 160-172: the record is reloaded or thawed
CacheLoad(m, key, heatup, wd) ==
    IF NeedsSourceRead(m, key)
    THEN CacheCool(ReadAnndata(m, SourceFile(key)), key)
    ELSE ThawAnndata(m, key, heatup, wd)

\* cache_anndata, line 175: only the requested members are heated
CacheHeat(l, key, heatup, f, kill, wd) ==
    IF ~Running(l) THEN l
    ELSE [HeatAnndata(l, key, [mem \in DOMAIN l.ret \cap heatup |-> l.ret[mem]], f, kill, wd)
             EXCEPT !.ret = PyNone]

\* cache_anndata(key, heatup); heatup is the set of members (True: all of them)
CacheAnndata(m, key, heatup, f, kill, wd) ==
    IF ~Running(m) THEN m
    ELSE CacheHeat(CacheLoad(m, key, heatup, wd), key, heatup, f, kill, wd)

\* if not contains(...): cache_anndata(key, ...)
CacheIfMiss(c, key, heatup, f, kill, wd) ==
    IF Running(c) /\ ~IsTrue(c.ret) THEN CacheAnndata(c, key, heatup, f, kill, wd) ELSE c

\* metadata and indices, lines 202-204: the member file is parsed
YamlRead(a, p, member) ==
    IF ~Running(a) THEN a
    ELSE IF p \notin DOMAIN a.files THEN Raise(a, "FileNotFoundError")
    ELSE [a EXCEPT !.coldRead = @ \cup {p}, !.ret = ColdLoad(member, a.files[p])]

\* metadata and indices, lines 195-204, with key and its member key keyM
YamlWith(m, key, keyM, p, member, f, kill, wd) ==
    IF key.location = "hdd"
    THEN Get(CacheIfMiss(Contains(m, <<keyM>>, f, kill), key, Members, f, kill, wd),
             keyM, "object", f, kill)
    ELSE IF p \notin DOMAIN m.files
    THEN YamlRead(CacheAnndata(m, key, {}, f, kill, wd), p, member)
    ELSE YamlRead(m, p, member)

\* metadata(key) and indices(key): the same code on their own member file
YamlAccessor(m, filename, member, f, kill, wd) ==
    YamlWith(m, Key(filename, wd),
             WithSuffix(Key(filename, wd), <<Slash, ColdFileName(member)>>, wd),
             SuffixFile(Key(filename, wd), member, wd),
             member, f, kill, wd)

Metadata(m, filename, f, kill, wd) == YamlAccessor(m, filename, "metadata", f, kill, wd)

Indices(m, filename, f, kill, wd) == YamlAccessor(m, filename, "indices", f, kill, wd)

\* what an accessor asks cache_anndata for: its member, or True for a raw path
Wanted(key, member) == IF key.location = "cached" THEN {member} ELSE Members

\* a variant of FrameWith that serves a name of the cache from its cold file
\* when the file exists, the way metadata and indices do
FrameWithColdFile(m, key, keyM, member, f, kill, wd) ==
    IF key.location = "cached" /\ ColdFile(key, member) \in DOMAIN m.files
    THEN YamlRead(m, ColdFile(key, member), member)
    ELSE Get(CacheIfMiss(Contains(m, <<keyM>>, f, kill), key, Wanted(key, member), f, kill, wd),
             keyM, "pandas", f, kill)

\* obs and var, lines 251-256, with key and its member key keyM
FrameWith(m, key, keyM, member, f, kill, wd) ==
    Get(CacheIfMiss(Contains(m, <<keyM>>, f, kill), key, Wanted(key, member), f, kill, wd),
        keyM, "pandas", f, kill)

\* obs(key) and var(key): the same code on their own member
FrameAccessor(m, filename, member, f, kill, wd) ==
    FrameWith(m, Key(filename, wd),
              WithSuffix(Key(filename, wd), <<Slash, ColdFileName(member)>>, wd),
              member, f, kill, wd)

Obs(m, filename, f, kill, wd) == FrameAccessor(m, filename, "obs", f, kill, wd)

Var(m, filename, f, kill, wd) == FrameAccessor(m, filename, "var", f, kill, wd)

\* the three hot-store keys behind X(key)
XKeys(key, wd) ==
    << WithSuffix(key, <<Slash, "X.h5">>, wd),
       WithSuffix(key, <<Slash, "var_names">>, wd),
       WithSuffix(key, <<Slash, "obs_names">>, wd) >>

\* X, line 307: the labelled frame is built from the three objects
XFrame(o) ==
    IF ~Running(o) THEN o
    ELSE [o EXCEPT !.ret = DataFrame(<<"X", o.env["x"].data, o.env["var_names"].data,
                                       o.env["obs_names"].data>>)]

\* X, lines 301-307, with key and its three member keys ks
XWith(m, key, ks, f, kill, wd) ==
    XFrame(
      Keep(Get(
        Keep(Get(
          Keep(Get(CacheIfMiss(Contains(m, ks, f, kill), key, Wanted(key, "X"), f, kill, wd),
                   ks[1], "numpy", f, kill), "x"),
          ks[2], "object", f, kill), "var_names"),
        ks[3], "object", f, kill), "obs_names"))

\* X(key)
X(m, filename, f, kill, wd) ==
    XWith(m, Key(filename, wd), XKeys(Key(filename, wd), wd), f, kill, wd)

----------------------------------------------------------------------------
(* _other_types.py *)

\* pd.read_csv(key.name)
ReadCsv(m, p) ==
    IF ~Running(m) THEN m
    ELSE IF p \notin DOMAIN m.files
    THEN Raise([m EXCEPT !.srcTried = @ \cup {p}], "FileNotFoundError")
    ELSE [m EXCEPT !.srcTried = @ \cup {p}, !.srcRead = @ \cup {p},
                   !.ret = DataFrame(<<"csv", m.files[p].data>>)]

\* csv, lines 28-29: the frame read is stored with put(dataframe, key) and returned
CsvStore(r, key, f, kill, wd) ==
    IF ~Running(r) THEN r
    ELSE [Put(r, <<r.ret, key>>, {}, f, kill, wd) EXCEPT !.ret = r.ret]

\* csv, lines 25-29
CsvWith(c, key, f, kill, wd) ==
    IF ~Running(c) THEN c
    ELSE IF IsTrue(c.ret) THEN Get(c, key, "pandas", f, kill)
    ELSE CsvStore(ReadCsv(c, PathOf(key.name)), key, f, kill, wd)

\* csv(key)
Csv(m, filename, f, kill, wd) ==
    CsvWith(Contains(m, <<Key(filename, wd)>>, f, kill), Key(filename, wd), f, kill, wd)

----------------------------------------------------------------------------
(* The inputs of the model *)

\* dataset names of one and of three path segments, and a raw path
Name1 == <<"ds", H5ad>>
Name3 == <<"grp", Slash, "proj", Slash, "ds">>
NameRaw == <<Slash, "mnt", Slash, "grp", Slash, "proj", Slash, "ds", H5ad>>
FileNames == {Name1, Name3, NameRaw}

\* a csv table and two plain object names for the direct store calls
NameCsv == <<Slash, "mnt", Slash, "grp", Slash, "proj", Slash, "samples.csv">>
NameA == <<"a">>
NameB == <<"b">>

\* working directories of the process; the directory matters to the member
\* keys of a name of three segments only
WorkDirs == {<<Slash, "srv">>, CacheFolder}

\* payloads of the direct put calls: frames 1..MaxData, an array, an object
Values ==
    {DataFrame(<<"v", i>>) : i \in 1..MaxData}
        \cup {Ndarray(<<"v", 1>>), PyObject(<<"v", 1>>)}

Dtypes == {"pandas", "numpy", "object"}

\* the plans of a call that can allocate, and of a call that makes at most n
\* plasma calls, none of them allocating
FaultPlans ==
    {NoFault} \cup [at : 1..MaxFaultAt, kind : {"OSError"}]
        \cup [at : 1..MaxFullAt, kind : {"PlasmaStoreFull"}]

ConnectionFaults(n) == {NoFault} \cup [at : 1..n, kind : {"OSError"}]

\* an .h5ad file, a csv file
SourceContent(d) == [fmt |-> "source", data |-> d]

\* what the authoritative file under the data folder holds, and what a copy of
\* it lying under the cache folder holds
DataCopy == "data-folder copy"
CacheCopy == "cache-folder copy"

\* the hot-store keys of a dataset's members
MemberSuffixes ==
    {<<Slash, ColdFileName(mem)>> : mem \in Members}
        \cup {<<Slash, "var_names">>, <<Slash, "obs_names">>}

\* the value __heat_anndata stores under a member key for source content d
HeatValue(suffix, d) ==
    LET all == UNION {{<<e[i][2], e[i][1]>> : i \in 1..Len(e)} :
                      e \in {HeatEntries(mem, IF IsFrame(mem) THEN DataFrame(<<mem, d>>)
                                              ELSE PyObject(<<mem, d>>)) : mem \in Members}}
    IN  (CHOOSE p \in all : p[1] = suffix)[2]

----------------------------------------------------------------------------
(* State.  fname is the dataset the process works on, cwd its working       *)
(* directory, killOnFail the setting ANNDATA_CACHE_KILL_ON_FAIL, alive      *)
(* whether the process runs, hot the shared plasma store (object id ->      *)
(* buffer and seal flag), files the file system (path -> content), last the *)
(* record of the last public call: its arguments, its outcome, what it read *)
(* and wrote, and the sealed objects and the files it started from; procs   *)
(* holds the position and the local variables of each of the processes that *)
(* run a call step by step at the same time (none where calls run one after *)
(* the other).                                                              *)

\* the public calls run to completion one after the other
Finish(op, args, f, result) ==
    \E m \in {result} :
        /\ hot' = m.hot
        /\ files' = m.files
        /\ alive' = (m.exc \notin {"SIGKILL", "hang"})
        /\ last' = [ op |-> op, args |-> args,
                     fault |-> IF m.faulted THEN f ELSE NoFault, exc |-> m.exc,
                     ret |-> IF m.exc = "none" THEN m.ret ELSE PyNone,
                     srcTried |-> m.srcTried, srcRead |-> m.srcRead,
                     coldRead |-> m.coldRead,
                     coldWrote |-> m.coldWrote,
                     hot0 |-> {id \in DOMAIN hot : hot[id].sealed},
                     files0 |-> DOMAIN files ]
        /\ UNCHANGED <<fname, cwd, killOnFail, procs>>

NoCall ==
    [ op |-> "none", args |-> <<>>, fault |-> NoFault, exc |-> "none", ret |-> PyNone,
      srcTried |-> {}, srcRead |-> {}, coldRead |-> {}, coldWrote |-> {}, hot0 |-> {},
      files0 |-> {} ]

\* the source files a dataset may start with: the authoritative file lies
\* under the data folder and a copy of it may lie under the cache folder; a raw
\* path names a file that may be missing
SourceCandidates(key) ==
    IF key.location = "cached"
    THEN {{<<key.path, DataCopy>>},
          {<<key.path, DataCopy>>, <<SourceFile(key), CacheCopy>>}}
    ELSE {{}, {<<SourceFile(key), DataCopy>>}}

FilesOf(pairs) == [p \in {q[1] : q \in pairs} |-> (CHOOSE q \in pairs : q[1] = p)[2]]

\* the cold files a dataset may start with: an earlier __cool_anndata of the
\* data-folder copy ran to its end or was cut short after any of its writes
ColdPrefixes(key) ==
    IF key.location = "cached"
    THEN {{<<ColdFile(key, MemberOrder[i]), MemberOrder[i]>> : i \in 1..n} :
              n \in 0..Len(MemberOrder)}
    ELSE {{}}

Init ==
    /\ fname \in FileNames
    /\ cwd \in WorkDirs
    /\ cwd = CacheFolder => fname = Name3
    /\ killOnFail = TRUE
    /\ alive = TRUE
    /\ hot = <<>>
    /\ \E srcs \in SourceCandidates(Key(fname, cwd)) :
       \E cold \in ColdPrefixes(Key(fname, cwd)) :
           files = FilesOf({<<q[1], SourceContent(q[2])>> : q \in srcs}
                           \cup {<<q[1], ColdDump(q[2], [data |-> <<q[2], DataCopy>>])>> : q \in cold})
    /\ last = NoCall
    /\ procs = <<>>

\* metadata(key), indices(key), obs(key), var(key), X(key)
CallMetadata ==
    /\ alive
    /\ Finish("metadata", <<fname>>, NoFault,
              Metadata(Begin(hot, files), fname, NoFault, killOnFail, cwd))

CallIndices ==
    /\ alive
    /\ Finish("indices", <<fname>>, NoFault,
              Indices(Begin(hot, files), fname, NoFault, killOnFail, cwd))

CallObs ==
    /\ alive
    /\ Finish("obs", <<fname>>, NoFault,
              Obs(Begin(hot, files), fname, NoFault, killOnFail, cwd))

CallVar ==
    /\ alive
    /\ Finish("var", <<fname>>, NoFault,
              Var(Begin(hot, files), fname, NoFault, killOnFail, cwd))

CallX ==
    /\ alive
    /\ Finish("X", <<fname>>, NoFault,
              X(Begin(hot, files), fname, NoFault, killOnFail, cwd))

\* the member sets cache_anndata is called with: True, and what the accessors
\* pass: [], ["obs"], ["var"], ["X"]
Heatups == {Members, {}, {"obs"}, {"var"}, {"X"}}

\* cache_anndata(Key(fname), heatup)
CallCacheAnndata ==
    /\ alive
    /\ \E heatup \in Heatups :
           Finish("cache_anndata", <<heatup>>, NoFault,
                  CacheAnndata(Begin(hot, files), Key(fname, cwd), heatup,
                               NoFault, killOnFail, cwd))

\* the two ways the three parameters before overwrite are filled:
\* put(obj, key, overwrite=...) and put(obj, None, key, overwrite=...)
PutForms(obj, key) == {<<obj, key>>, <<obj, PyNone, key>>}

\* the member keys a client fills directly: the matrix members and the obs
\* frame, and the metadata of a raw path
PutSuffixes(key) ==
    {<<Slash, "X.h5">>, <<Slash, "var_names">>, <<Slash, "obs_names">>, <<Slash, "obs.h5">>}
        \cup IF key.location = "hdd" THEN {<<Slash, "metadata.yaml">>} ELSE {}

\* a client stores a member of the data-folder copy under its member key,
\* without overwriting
CallPutMember ==
    /\ alive
    /\ \E suffix \in PutSuffixes(Key(fname, cwd)) :
       LET key == WithSuffix(Key(fname, cwd), suffix, cwd)
       IN  \E pos \in PutForms(HeatValue(suffix, DataCopy), key) :
               Finish("put", <<pos, FALSE>>, NoFault,
                      Put(Begin(hot, files), pos, {FALSE}, NoFault, killOnFail, cwd))

\* the process is started again; the store drops what a client that went
\* away had created and not sealed
Restart ==
    /\ ~alive
    /\ alive' = TRUE
    /\ hot' = [id \in {i \in DOMAIN hot : hot[i].sealed} |-> hot[id]]
    /\ last' = NoCall
    /\ UNCHANGED <<fname, cwd, killOnFail, files, procs>>

Next ==
    \/ CallMetadata
    \/ CallIndices
    \/ CallObs
    \/ CallVar
    \/ CallX
    \/ CallCacheAnndata
    \/ CallPutMember

\* the accessors and the orchestrator on one dataset
Spec == Init /\ [][Next]_vars

\* two clients fill the obs frame and the matrix, one from the data-folder
\* copy and one from the cache-folder copy, without overwriting
CallPutEither ==
    /\ alive
    /\ \E suffix \in {<<Slash, "obs.h5">>, <<Slash, "X.h5">>}, d \in {DataCopy, CacheCopy} :
           Finish("put", <<<<HeatValue(suffix, d), PyNone,
                            WithSuffix(Key(fname, cwd), suffix, cwd)>>, FALSE>>, NoFault,
                  Put(Begin(hot, files),
                      <<HeatValue(suffix, d), PyNone, WithSuffix(Key(fname, cwd), suffix, cwd)>>,
                      {FALSE}, NoFault, killOnFail, cwd))

InitKeep == Init /\ cwd = <<Slash, "srv">> /\ fname \in {Name1, NameRaw}

NextKeep ==
    \/ CallMetadata
    \/ CallIndices
    \/ CallObs
    \/ CallVar
    \/ CallX
    \/ CallCacheAnndata
    \/ CallPutEither

\* the accessors and the orchestrator while clients put competing values
\* under member keys
SpecKeep == InitKeep /\ [][NextKeep]_vars

----------------------------------------------------------------------------
(* The hot-store client called directly, with store failures *)

KeyA == Key(NameA, <<Slash, "srv">>)
KeyB == Key(NameB, <<Slash, "srv">>)

\* the key tuples of contains and delete
KeyTuples == {<<KeyA>>, <<KeyB>>, <<KeyA, KeyB>>, <<KeyB, KeyA>>}

\* what is put under each key: anything under a, one object under b
PutValues(key) == IF key = KeyA THEN Values ELSE {PyObject(<<"v", 1>>)}

InitCrud ==
    /\ fname = NameCsv
    /\ cwd = <<Slash, "srv">>
    /\ killOnFail \in BOOLEAN
    /\ alive = TRUE
    /\ hot = <<>>
    /\ files = FilesOf({<<PathOf(NameCsv), SourceContent(DataCopy)>>})
    /\ last = NoCall
    /\ procs = <<>>

\* contains(*keys)
CallContains ==
    /\ alive
    /\ \E keys \in KeyTuples :
       \E f \in ConnectionFaults(Len(keys)) :
           Finish("contains", <<keys>>, f, Contains(Begin(hot, files), keys, f, killOnFail))

\* put(obj, key), put(obj, key, overwrite=False) and the same with the second
\* parameter filled
CallPut ==
    /\ alive
    /\ \E key \in {KeyA, KeyB}, kw \in {{}, {FALSE}} :
       \E obj \in PutValues(key) :
       \E pos \in PutForms(obj, key) :
       \E f \in IF PutArgsBind(pos, kw) THEN FaultPlans ELSE {NoFault} :
           Finish("put", <<pos, kw>>, f, Put(Begin(hot, files), pos, kw, f, killOnFail, cwd))

\* get(key, dtype)
CallGet ==
    /\ alive
    /\ \E key \in {KeyA, KeyB}, dtype \in Dtypes, f \in ConnectionFaults(1) :
           Finish("get", <<key, dtype>>, f, Get(Begin(hot, files), key, dtype, f, killOnFail))

\* delete(*keys)
CallDelete ==
    /\ alive
    /\ \E keys \in KeyTuples :
       \E f \in ConnectionFaults(2 * Len(keys)) :
           Finish("delete", <<keys>>, f, Delete(Begin(hot, files), keys, f, killOnFail))

\* current_usage()
CallUsage ==
    /\ alive
    /\ \E f \in ConnectionFaults(2) :
           Finish("current_usage", <<>>, f, CurrentUsage(Begin(hot, files), f, killOnFail))

\* list_objects()
CallList ==
    /\ alive
    /\ \E f \in ConnectionFaults(3) :
           Finish("list_objects", <<>>, f, ListObjects(Begin(hot, files), f, cwd))

\* csv(key)
CallCsv ==
    /\ alive
    /\ \E f \in ConnectionFaults(1) :
           Finish("csv", <<fname>>, f, Csv(Begin(hot, files), fname, f, killOnFail, cwd))

NextCrud ==
    \/ CallContains
    \/ CallPut
    \/ CallGet
    \/ CallDelete
    \/ CallUsage
    \/ CallList
    \/ CallCsv
    \/ Restart

SpecCrud == InitCrud /\ [][NextCrud]_vars

----------------------------------------------------------------------------
(* Two processes call put at the same time.  Each call to the plasma      *)
(* client is one step, and the steps of the two processes interleave.      *)

Procs == {1, 2}

\* process 1 puts under key a, process 2 under a or b; each puts a frame or
\* an object of its own, overwriting or not
PutCalls(p) ==
    [ obj : {DataFrame(<<"v", p>>), PyObject(<<"v", p>>)},
      key : IF p = 1 THEN {KeyA} ELSE {KeyA, KeyB},
      overwrite : BOOLEAN ]

\* put, line 60: the call is bound and no store call is made yet
PutEntered(call) ==
    [ pc |-> "registry_contains", obj |-> call.obj, key |-> call.key,
      overwrite |-> call.overwrite, map |-> <<>>, exc |-> "none" ]

\* the store the two calls start from: empty, or as an earlier put of an
\* object under b left it
StoresBefore ==
    {<<>>, Put(Begin(<<>>, <<>>), <<PyObject(<<"v", 0>>), PyNone, KeyB>>, {}, NoFault, TRUE,
               <<Slash, "srv">>).hot}

InitRace ==
    /\ fname = NameCsv
    /\ cwd = <<Slash, "srv">>
    /\ killOnFail = TRUE
    /\ alive = TRUE
    /\ hot \in StoresBefore
    /\ files = <<>>
    /\ last = NoCall
    /\ procs \in [Procs -> UNION {{PutEntered(c) : c \in PutCalls(p)} : p \in Procs}]
    /\ \A p \in Procs : \E c \in PutCalls(p) : procs[p] = PutEntered(c)

\* process p made the store call that left m and goes on at pc; an exception
\* the call raised ends put, since none of them is one put handles
Step(p, m, pc, map) ==
    /\ hot' = m.hot
    /\ procs' = [procs EXCEPT ![p] = [@ EXCEPT !.pc = IF m.exc = "none" THEN pc ELSE "raised",
                                               !.exc = m.exc,
                                               !.map = map]]
    /\ UNCHANGED <<fname, cwd, killOnFail, alive, files, last>>

\* put, line 63: _plasma_client.contains(_id_name_map_key.id)
PutRegistryContains(p) ==
    /\ procs[p].pc = "registry_contains"
    /\ \E m \in {ClientContains(Begin(hot, files), IdNameMapKey(cwd).id, NoFault)} :
           Step(p, m, IF m.ret.data THEN "registry_get" ELSE "registry_put", <<>>)

\* put, line 64: _plasma_client.get(_id_name_map_key.id) waits for the object
PutRegistryGet(p) ==
    /\ procs[p].pc = "registry_get"
    /\ Sealed(hot, IdNameMapKey(cwd).id)
    /\ \E m \in {ClientGetBuffer(Begin(hot, files), IdNameMapKey(cwd).id, NoFault)} :
           Step(p, m, "registry_delete", m.ret.payload)

\* put, line 65: _plasma_client.delete([_id_name_map_key.id])
PutRegistryDelete(p) ==
    /\ procs[p].pc = "registry_delete"
    /\ \E m \in {ClientDelete(Begin(hot, files), IdNameMapKey(cwd).id, NoFault)} :
           Step(p, m, "registry_put", procs[p].map)

\* put, lines 66-67: the name is merged in and the registry is written
PutRegistryPut(p) ==
    /\ procs[p].pc = "registry_put"
    /\ \E m \in {ClientPut(Begin(hot, files), IdNameMapKey(cwd).id,
                           Encode(PyObject((HexOf(procs[p].key.id) :> procs[p].key.name)
                                               @@ procs[p].map)),
                           NoFault)} :
           Step(p, m, "contains", procs[p].map)

\* put, lines 70-75: _plasma_client.contains(key.id) and the overwrite test
PutContains(p) ==
    /\ procs[p].pc = "contains"
    /\ \E m \in {ClientContains(Begin(hot, files), procs[p].key.id, NoFault)} :
           Step(p, m, IF ~m.ret.data THEN "store"
                      ELSE IF procs[p].overwrite THEN "delete" ELSE "returned",
                procs[p].map)

\* put, line 75: _plasma_client.delete([key.id])
PutDelete(p) ==
    /\ procs[p].pc = "delete"
    /\ \E m \in {ClientDelete(Begin(hot, files), procs[p].key.id, NoFault)} :
           Step(p, m, "store", procs[p].map)

\* put, lines 87-93: _plasma_client.create(key.id, data_size) and the write
\* into the buffer
PutCreate(p) ==
    /\ procs[p].pc = "store"
    /\ procs[p].obj.type \in {"DataFrame", "ndarray"}
    /\ \E m \in {ClientCreate(Begin(hot, files), procs[p].key.id, Encode(procs[p].obj),
                              NoFault)} :
           Step(p, m, "seal", procs[p].map)

\* put, line 94: _plasma_client.seal(key.id)
PutSeal(p) ==
    /\ procs[p].pc = "seal"
    /\ \E m \in {ClientSeal(Begin(hot, files), procs[p].key.id, NoFault)} :
           Step(p, m, "returned", procs[p].map)

\* put, line 104: _plasma_client.put(obj, key.id)
PutObject(p) ==
    /\ procs[p].pc = "store"
    /\ procs[p].obj.type = "object"
    /\ \E m \in {ClientPut(Begin(hot, files), procs[p].key.id, Encode(procs[p].obj),
                           NoFault)} :
           Step(p, m, "returned", procs[p].map)

NextRace ==
    \/ \E p \in Procs : PutRegistryContains(p)
    \/ \E p \in Procs : PutRegistryGet(p)
    \/ \E p \in Procs : PutRegistryDelete(p)
    \/ \E p \in Procs : PutRegistryPut(p)
    \/ \E p \in Procs : PutContains(p)
    \/ \E p \in Procs : PutDelete(p)
    \/ \E p \in Procs : PutCreate(p)
    \/ \E p \in Procs : PutSeal(p)
    \/ \E p \in Procs : PutObject(p)

SpecRace == InitRace /\ [][NextRace]_vars

----------------------------------------------------------------------------
(* Two processes call cache_anndata on the same dataset of the cache at    *)
(* the same time.  Each test of a file and each write of a file is one     *)
(* step, and the steps of the two processes interleave.                    *)

CoolKey == Key(Name1, <<Slash, "srv">>)

\* the .h5ad file under the cache folder, and the cold files an earlier
\* cold write left
InitCool ==
    /\ fname = Name1
    /\ cwd = <<Slash, "srv">>
    /\ killOnFail = TRUE
    /\ alive = TRUE
    /\ hot = <<>>
    /\ \E cold \in ColdPrefixes(CoolKey) :
           files = FilesOf({<<SourceFile(CoolKey), SourceContent(CacheCopy)>>}
                           \cup {<<q[1], ColdDump(q[2], [data |-> <<q[2], DataCopy>>])>> :
                                    q \in cold})
    /\ last = NoCall
    /\ procs = [p \in Procs |-> [pc |-> "test", i |-> 1, ad |-> <<>>, wrote |-> {}]]

\* process p goes on at pc with member i
CoolStep(p, pc, i, ad, wrote) ==
    /\ procs' = [procs EXCEPT ![p] = [pc |-> IF i > Len(MemberOrder) THEN "heat" ELSE pc,
                                      i |-> i, ad |-> ad, wrote |-> wrote]]
    /\ UNCHANGED <<fname, cwd, killOnFail, alive, hot, last>>

\* cache_anndata, lines 160-169: the test of the five cold files, and the
\* full reload when one is missing
CacheTest(p) ==
    /\ procs[p].pc = "test"
    /\ IF NeedsSourceRead(Begin(hot, files), CoolKey)
       THEN CoolStep(p, "exists", 1, ReadAnndata(Begin(hot, files), SourceFile(CoolKey)).ret, {})
       ELSE CoolStep(p, "thaw", 1, <<>>, {})
    /\ UNCHANGED files

\* __cool_anndata, lines 76, 78, 80, 85, 88: the test of one member file
CoolExists(p) ==
    /\ procs[p].pc = "exists"
    /\ IF ColdFile(CoolKey, MemberOrder[procs[p].i]) \in DOMAIN files
       THEN CoolStep(p, "exists", procs[p].i + 1, procs[p].ad, procs[p].wrote)
       ELSE CoolStep(p, "open", procs[p].i, procs[p].ad, procs[p].wrote)
    /\ UNCHANGED files

\* what a file opened with mode "w" holds until its writer has written it
Truncated == <<>>

\* __cool_anndata, lines 77, 79, 82, 86, 89: to_hdf(..., mode="w") and
\* open(..., "w") create the member file, or empty the one that is there
CoolOpen(p) ==
    /\ procs[p].pc = "open"
    /\ files' = (ColdFile(CoolKey, MemberOrder[procs[p].i])
                    :> ColdDump(MemberOrder[procs[p].i], [data |-> Truncated]))
                @@ files
    /\ CoolStep(p, "write", procs[p].i, procs[p].ad, procs[p].wrote)

\* __cool_anndata, lines 77, 79, 82, 87, 90: the member is written into the
\* file opened for it
CoolWrite(p) ==
    /\ procs[p].pc = "write"
    /\ files' = (ColdFile(CoolKey, MemberOrder[procs[p].i])
                    :> ColdDump(MemberOrder[procs[p].i], procs[p].ad[MemberOrder[procs[p].i]]))
                @@ files
    /\ CoolStep(p, "exists", procs[p].i + 1, procs[p].ad,
                procs[p].wrote \cup {ColdFile(CoolKey, MemberOrder[procs[p].i])})

\* __thaw_anndata, lines 98-118, called at line 172 with every member
\* requested: one member file is read as it is at that time
ThawRead(p) ==
    /\ procs[p].pc = "thaw"
    /\ IF SuffixFile(CoolKey, MemberOrder[procs[p].i], cwd) \in DOMAIN files
       THEN CoolStep(p, "thaw", procs[p].i + 1,
                     (MemberOrder[procs[p].i]
                         :> ColdLoad(MemberOrder[procs[p].i],
                                     files[SuffixFile(CoolKey, MemberOrder[procs[p].i], cwd)]))
                     @@ procs[p].ad,
                     procs[p].wrote)
       ELSE CoolStep(p, "raised", procs[p].i, procs[p].ad, procs[p].wrote)
    /\ UNCHANGED files

NextCool ==
    \/ \E p \in Procs : CacheTest(p)
    \/ \E p \in Procs : CoolExists(p)
    \/ \E p \in Procs : CoolOpen(p)
    \/ \E p \in Procs : CoolWrite(p)
    \/ \E p \in Procs : ThawRead(p)

SpecCool == InitCool /\ [][NextCool]_vars

----------------------------------------------------------------------------
(* Key derivation on its own: a process derives the key of a name *)

\* names: every string of up to MaxNameLen separators, dots and words, and
\* each of them with ".h5ad" appended
NameTokens == {Slash, Dot, "ds"}

KeyNames ==
    LET stems == UNION {[1..n -> NameTokens] : n \in 0..MaxNameLen}
    IN  stems \cup {s \o <<H5ad>> : s \in stems}

InitKey ==
    /\ fname \in KeyNames
    /\ cwd \in WorkDirs
    /\ killOnFail = TRUE
    /\ alive = TRUE
    /\ hot = <<>>
    /\ files = <<>>
    /\ last = NoCall
    /\ procs = <<>>

\* Key(fname)
Derive ==
    /\ last.op = "none"
    /\ last' = [NoCall EXCEPT !.op = "Key", !.args = <<fname>>, !.ret = Key(fname, cwd)]
    /\ UNCHANGED <<fname, cwd, killOnFail, alive, hot, files, procs>>

NextKey == Derive

SpecKey == InitKey /\ [][NextKey]_vars

----------------------------------------------------------------------------
(* Properties of the accessors and the orchestrator, checked under Spec *)

\* the dataset key of the process and the hot-store keys behind each accessor
DatasetKey == Key(fname, cwd)

BackingSuffixes(op) ==
    IF op = "X" THEN {<<Slash, "X.h5">>, <<Slash, "var_names">>, <<Slash, "obs_names">>}
    ELSE {<<Slash, ColdFileName(op)>>}

BackingIds(op) == {WithSuffix(DatasetKey, s, cwd).id : s \in BackingSuffixes(op)}

SealedIds == {id \in DOMAIN hot : hot[id].sealed}

YamlOps == {"metadata", "indices"}
FrameOps == {"obs", "var", "X"}

ColdFiles == {ColdFile(DatasetKey, mem) : mem \in Members}

C3_MatrixFromColdTier ==
    ( /\ last.op = "X"
      /\ DatasetKey.location = "cached"
      /\ ColdFiles \subseteq last.files0
      /\ ~(BackingIds("X") \subseteq last.hot0) )
        => /\ last.srcTried = {}
           /\ last.coldRead # {}
           /\ BackingIds("X") \subseteq SealedIds

\* C4: a raw path never gets a cold file, and an accessor call on it that
\* misses the hot store opens the source file and reads no cold file
C4_RawPathBypassesColdTier ==
    DatasetKey.location = "hdd"
        => /\ DOMAIN files \subseteq {SourceFile(DatasetKey)}
           /\ ( /\ last.op \in YamlOps \cup FrameOps
                /\ ~(BackingIds(last.op) \subseteq last.hot0) )
                  => /\ last.srcTried = {DatasetKey.name}
                     /\ last.coldRead = {}
                     /\ last.coldWrote = {}
                     /\ (DatasetKey.name \in last.files0 => last.srcRead = {DatasetKey.name})

\* obs missed the hot store on a raw path and the source file was parsed
C4_RawPathSourceRead ==
    /\ DatasetKey.location = "hdd"
    /\ last.op = "obs"
    /\ ~(BackingIds("obs") \subseteq last.hot0)
    /\ last.srcRead = {DatasetKey.name}

\* the members cache_anndata was asked for by the last call
Requested == last.args[1]

\* C5 as the specification states it: on a name of the cache, cache_anndata
\* opens the source iff the cold file of a requested member is missing, and
\* otherwise reads the cold files of exactly the requested members
C5_SourceIffRequestedMissing ==
    (last.op = "cache_anndata" /\ DatasetKey.location = "cached")
        => /\ last.srcTried # {}
               <=> (\E mem \in Requested : ColdFile(DatasetKey, mem) \notin last.files0)
           /\ (\A mem \in Requested : ColdFile(DatasetKey, mem) \in last.files0)
                  => /\ last.srcTried = {}
                     /\ last.coldRead = {ColdFile(DatasetKey, mem) : mem \in Requested}

\* C5, amended: on a name of the cache, cache_anndata opens the source iff the
\* cold file of any of the five members is missing, requested or not; when
\* the five cold files exist it opens no source and reads cold files of
\* requested members only, all of them unless a file is not found
C5_SourceIffAnyMissing ==
    (last.op = "cache_anndata" /\ DatasetKey.location = "cached")
        => /\ last.srcTried # {} <=> ~(ColdFiles \subseteq last.files0)
           /\ last.srcTried \subseteq {SourceFile(DatasetKey)}
           /\ ColdFiles \subseteq last.files0
                  => /\ last.coldRead \subseteq
                            {SuffixFile(DatasetKey, mem, cwd) : mem \in Requested}
                     /\ last.exc # "FileNotFoundError"
                            => last.coldRead =
                                   {SuffixFile(DatasetKey, mem, cwd) : mem \in Requested}

\* cache_anndata was asked for obs alone, the obs cold file existed, another
\* cold file did not, and the source was parsed
C5_SourceReadForOtherMember ==
    /\ last.op = "cache_anndata"
    /\ DatasetKey.location = "cached"
    /\ Requested = {"obs"}
    /\ ColdFile(DatasetKey, "obs") \in last.files0
    /\ last.srcRead # {}

\* C19 as the specification states it: a call on a name of the cache opens no
\* source file other than the key's path under the data folder
C19_SourceReadUnderDataFolder ==
    (last.op # "none" /\ DatasetKey.location = "cached")
        => last.srcTried \subseteq {DatasetKey.path}

\* C22 as the specification states it: on a name of the cache, the path the
\* cold read and the metadata and indices accessors derive for a member is the
\* path the cold write creates and cache_anndata tests, so a call reads cold
\* files at those paths only and finds every member file that was there
C22_ColdPathsAgree ==
    (last.op # "none" /\ DatasetKey.location = "cached")
        => /\ \A mem \in Members : SuffixFile(DatasetKey, mem, cwd) = ColdFile(DatasetKey, mem)
           /\ last.coldRead \subseteq ColdFiles
           /\ ColdFiles \subseteq last.files0 => last.exc # "FileNotFoundError"

----------------------------------------------------------------------------
(* Properties of the hot-store client, checked under SpecCrud *)

\* the type tag get needs to read back a value
DtypeOf(v) ==
    IF v.type = "DataFrame" THEN "pandas"
    ELSE IF v.type = "ndarray" THEN "numpy"
    ELSE "object"

\* the call l was put(value, key) or put(value, key, overwrite=...), written
\* as the specification writes it, and no store call failed in it
PutValueKey(l, kw) ==
    /\ l.op = "put"
    /\ Len(l.args[1]) = 2
    /\ l.args[2] = kw
    /\ l.fault = NoFault

\* C6 as the specification states it: after put(v1, k, overwrite=False) on an
\* absent key and then put(v2, k, overwrite=False), the payload under k is v1
C6_NoOverwriteKeepsFirst ==
    [][ ( /\ PutValueKey(last, {FALSE})
          /\ last.args[1][2].id \notin last.hot0
          /\ PutValueKey(last', {FALSE})
          /\ last'.args[1][2] = last.args[1][2] )
            => /\ Sealed(hot', last.args[1][2].id)
               /\ hot'[last.args[1][2].id].buf = Encode(last.args[1][1]) ]_vars

\* C7 as the specification states it: after put(v1, k) and then put(v2, k)
\* with v1 # v2, k is present and get(k, tag of v2) returns v2
C7_OverwriteKeepsSecond ==
    [][ ( /\ PutValueKey(last, {})
          /\ PutValueKey(last', {})
          /\ last'.args[1][2] = last.args[1][2]
          /\ last'.args[1][1] # last.args[1][1] )
            => /\ Sealed(hot', last'.args[1][2].id)
               /\ Get(Begin(hot', files'), last'.args[1][2], DtypeOf(last'.args[1][1]),
                      NoFault, killOnFail).ret = last'.args[1][1] ]_vars

\* C8 as the specification states it: contains returns True iff every key
\* given is in the store, whatever the setting and whether or not a store
\* call fails
C8_ContainsIffAllPresent ==
    (last.op = "contains" /\ last.exc = "none")
        => (IsTrue(last.ret)
               <=> \A i \in 1..Len(last.args[1]) : last.args[1][i].id \in last.hot0)

\* the hot-store operations, and whether the connection was lost in the last call
HotStoreOps == {"contains", "put", "get", "delete", "current_usage", "list_objects"}

ConnectionLost == last.fault.at > 0 /\ last.fault.kind = "OSError"

\* C9 as the specification states it: with escalation enabled, a lost
\* connection in any hot-store operation ends the process
C9_ConnectionLossKills ==
    (killOnFail /\ last.op \in HotStoreOps /\ ConnectionLost)
        => last.exc = "SIGKILL"

\* C10 as the specification states it: with escalation disabled, a call of
\* contains, put, get, delete or current_usage in which the connection is
\* lost returns None, raises nothing and leaves the process running
C10_ConnectionLossReturnsNone ==
    (~killOnFail /\ last.op \in HotStoreOps \ {"list_objects"} /\ ConnectionLost)
        => /\ last.exc = "none"
           /\ last.ret = PyNone
           /\ alive

\* the store was full at an allocation of the last call
StoreFull == last.fault.at > 0 /\ last.fault.kind = "PlasmaStoreFull"

\* C11: a put that finds the store full raises PlasmaStoreFull to its caller
\* and the process runs on, whatever the payload and the escalation setting
C11_StoreFullIsRecoverable ==
    (last.op = "put" /\ StoreFull)
        => /\ last.exc = "PlasmaStoreFull"
           /\ alive

\* with escalation enabled, the allocation of a frame's slot found the store
\* full and the caller got PlasmaStoreFull
C11_FrameSlotRefused ==
    /\ killOnFail
    /\ last.op = "put"
    /\ last.fault = [at |-> 2, kind |-> "PlasmaStoreFull"]
    /\ last.args[1][1].type = "DataFrame"
    /\ last.exc = "PlasmaStoreFull"
    /\ alive

\* C20 as the specification states it: a put that raises PlasmaStoreFull
\* leaves the hot store as it found it, the value under its key and the name
\* registry with its mappings included
C20_FailedPutLeavesStore ==
    [][(alive /\ last'.op = "put" /\ last'.exc = "PlasmaStoreFull") => hot' = hot]_vars

----------------------------------------------------------------------------
(* Properties of the accessors, the orchestrator and competing puts,       *)
(* checked under SpecKeep                                                   *)

\* the hot-store ids of the dataset's member keys
MemberIds == {WithSuffix(DatasetKey, s, cwd).id : s \in MemberSuffixes}

\* C15: a cold file that exists is never written again, whatever record a
\* later cold write holds: every call leaves the content of every cold file
\* it found as it was, and writes only cold files it did not find
C15_ColdFilesWrittenOnce ==
    [][ /\ \A p \in ColdFiles \cap DOMAIN files :
               p \in DOMAIN files' /\ files'[p] = files[p]
        /\ last'.coldWrote \subseteq ColdFiles \ DOMAIN files ]_vars

\* a cold write of the record of the cache-folder copy has added member
\* files next to the obs file written from the data-folder copy, which still
\* holds what it held
C15_LaterWriteKeptObs ==
    /\ DatasetKey.location = "cached"
    /\ ColdFile(DatasetKey, "obs") \in last.files0
    /\ ColdFile(DatasetKey, "indices") \in last.coldWrote
    /\ files[ColdFile(DatasetKey, "obs")] = ColdDump("obs", [data |-> <<"obs", DataCopy>>])
    /\ files[ColdFile(DatasetKey, "indices")]
           = ColdDump("indices", [data |-> <<"indices", CacheCopy>>])

----------------------------------------------------------------------------
(* Properties of concurrent puts, checked under SpecRace *)

\* the put of process p is over
Ended(p) == procs[p].pc \in {"returned", "raised"}

\* C13 as the specification states it: two puts on different keys at the
\* same time both return without raising, and both payloads are in the store
C13_RacingPutsBothStored ==
    (procs[1].key # procs[2].key /\ \A p \in Procs : Ended(p))
        => \A p \in Procs :
               /\ procs[p].exc = "none"
               /\ Sealed(hot, procs[p].key.id)
               /\ hot[procs[p].key.id].buf = Encode(procs[p].obj)

\* C14 as the specification states it: allocation and seal are one commit, so
\* in every state every slot of the store is sealed with its payload
C14_NoUnsealedSlot ==
    \A id \in DOMAIN hot : hot[id].sealed

\* C21 as the specification states it: two puts on one key at the same time,
\* both overwriting or both not, return without raising in every interleaving
\* of their store calls, and the key then holds the value of one of them
C21_SameKeyPutsSafe ==
    (/\ procs[1].key = procs[2].key
     /\ procs[1].overwrite = procs[2].overwrite
     /\ \A p \in Procs : Ended(p))
        => /\ \A p \in Procs : procs[p].exc = "none"
           /\ Sealed(hot, procs[1].key.id)
           /\ \E p \in Procs : hot[procs[1].key.id].buf = Encode(procs[p].obj)

----------------------------------------------------------------------------
(* Properties of concurrent cold writes, checked under SpecCool *)

\* C16 as the specification states it: of two processes that run the cold
\* write of one dataset at the same time, at most one writes each member file
C16_OneWriterPerFile ==
    procs[1].wrote \cap procs[2].wrote = {}

\* C23 as the specification states it: while a process runs the cold write
\* of a dataset, no member that another process reads from a cold file it
\* found comes from a file whose writer has not written it yet
C23_ReadersSeeWholeFiles ==
    \A p \in Procs :
        procs[p].wrote = {}
            => \A mem \in DOMAIN procs[p].ad : procs[p].ad[mem].data # Truncated

----------------------------------------------------------------------------
(* Properties of key derivation, checked under SpecKey *)

\* the separators of s that have a token other than a separator somewhere
\* before them and somewhere after them
InnerSeparators(s) ==
    {i \in 1..Len(s) : /\ s[i] = Slash
                       /\ \E j \in 1..(i - 1) : s[j] # Slash
                       /\ \E j \in (i + 1)..Len(s) : s[j] # Slash}

C18_SameKeyInEveryProcess ==
    last.op = "Key"
        => \A wd \in WorkDirs :
               /\ Key(fname, wd).name = last.ret.name
               /\ Key(fname, wd).location = last.ret.location
               /\ Key(fname, wd).id = last.ret.id

====
